---- MODULE Spec2Model ----
(***************************************************************************)
(* ChainProof server: the session routes (register, login), the API-key    *)
(* routes (create, list, update, revoke, me) and the APIKey model's        *)
(* instance methods (isExpired, recordUsage, toJSON).                      *)
(*                                                                         *)
(* Every route handler is an async function: between two awaited store     *)
(* calls another request may run.  A handler is therefore one action per   *)
(* awaited store call, each action carrying the synchronous code up to the *)
(* next await (or up to the response).  pc[p] is the position of the       *)
(* request served in slot p, loc[p] its local variables.                   *)
(*                                                                         *)
(* Time is counted in days.  A Date is <<t>>, a null date is <<>>.  The     *)
(* updatedAt column, which the ORM maintains and no handler reads, is left *)
(* out of the rows.                                                        *)
(***************************************************************************)
EXTENDS Integers, Sequences, FiniteSets, TLC

VARIABLES
    users,       \* rows of the users table
    apiKeys,     \* rows of the api_keys table
    nextUserId,  \* the next fresh user id (UUIDV4)
    nextKeyId,   \* the next fresh key id (UUIDV4) and random draw
    now,         \* the clock, new Date()
    pc,          \* pc[p]: where the request in slot p stands
    loc,         \* loc[p]: the local variables of the request in slot p
    out,         \* the last request answered, with its response
    ledger,      \* history: [id, userId, key] of every key ever inserted
    revoked,     \* history: <<key id, user id>> of every completed revoke
    usageCalls,  \* history: usageCalls[id], the completed recordUsage calls
    refused,     \* history: the ids of the users answered with the quota error
    env,         \* process.env
    sequelize,   \* the module-level handle of config/sequelize.js
    connectPc,   \* where the connectDB call in progress stands
    trace,       \* history: the steps of the latest connectDB call, with their outcome
    console,     \* the lines the latest connectDB call wrote
    results      \* history: how each connectDB call settled

\* the state of the routes and of the tables
appVars == <<users, apiKeys, nextUserId, nextKeyId, now, pc, loc, out,
             ledger, revoked, usageCalls, refused>>

\* the state of config/sequelize.js
dbVars == <<env, sequelize, connectPc, trace, console, results>>

vars == <<appVars, dbVars>>

(***************************************************************************)
(* Bounds and input domains.                                               *)
(***************************************************************************)
Procs == {"p1", "p2"}

\* the clock stops here
MaxTime == 3
\* key ids (and random draws) the key routes may use up
MaxKeyId == 2
\* key ids the quota specification may use up: above MaxActiveKeys
QuotaMaxKeyId == 12
\* recordUsage calls per key
MaxUsage == 3
\* connectDB calls
MaxConnects == 5

Usernames == {"alice", "bob"}
Emails == {"a@x.io", "b@x.io"}
Passwords == {"pw1", "pw2"}

NoDate == <<>>
Date(t) == <<t>>
Time(d) == d[1]

\* JavaScript truthiness of a string: undefined and "" are both falsy; a
\* missing field is written "".
Falsy(s) == s = ""

\* Array.prototype.join
RECURSIVE Join(_, _)
Join(messages, sep) ==
    IF messages = <<>> THEN ""
    ELSE IF Len(messages) = 1 THEN messages[1]
    ELSE messages[1] \o sep \o Join(Tail(messages), sep)

Idle == <<>>

\* res.status(s).json(body)
Response(s, body) == [status |-> s, body |-> body]
Failure(s, msg) == Response(s, [success |-> FALSE, error |-> msg])

(***************************************************************************)
(* The database connection (config/sequelize.js): the module keeps one     *)
(* handle, built on first use from process.env.DATABASE_URL; connectDB     *)
(* obtains it, awaits authenticate, then awaits sync.  A connectDB call is *)
(* one action for the code up to the first await and one action per way    *)
(* each awaited call settles.                                              *)
(***************************************************************************)
\* let sequelize; (undefined), and a handle
NoHandle == <<>>
Handle(h) == <<h>>

DatabaseUrl == "postgres://db.example/chain"

\* process.env with DATABASE_URL unset, empty, and set
Envs ==
    {[NODE_ENV |-> "production"],
     [NODE_ENV |-> "production", DATABASE_URL |-> ""],
     [NODE_ENV |-> "development", DATABASE_URL |-> DatabaseUrl]}

\* the first position of c in s from i on, 0 if there is none
RECURSIVE IndexOf(_, _, _)
IndexOf(s, c, i) ==
    IF i > Len(s) THEN 0
    ELSE IF SubSeq(s, i, i) = c THEN i
    ELSE IndexOf(s, c, i + 1)

\* the part of a url after "scheme://"
Authority(url) == SubSeq(url, IndexOf(url, "/", 1) + 2, Len(url))

\* new Sequelize(url, options): host and database are read off the url
NewSequelize(url, nodeEnv) ==
    [config |-> [host |-> SubSeq(Authority(url), 1, IndexOf(Authority(url), "/", 1) - 1),
                 database |-> SubSeq(Authority(url), IndexOf(Authority(url), "/", 1) + 1,
                                     Len(Authority(url)))],
     dialect |-> "postgres",
     logging |-> (nodeEnv = "development")]

\* a call that returns a value, a call that throws an error
Return(value) == [threw |-> FALSE, value |-> value]
Throw(error) == [threw |-> TRUE, error |-> error]

\* the error of the constructor when the dialect's driver cannot be loaded
DriverMissing == [message |-> "Please install pg package manually"]

\* the errors authenticate and sync reject with: a connection error that
\* wraps the driver's error, and a bare error with a code
StoreErrors ==
    {[message |-> "connect ECONNREFUSED", name |-> "SequelizeConnectionRefusedError",
      parent |-> [message |-> "connect ECONNREFUSED", code |-> "ECONNREFUSED"]],
     [message |-> "timeout expired", code |-> "ETIMEDOUT"]}

\* getSequelize(); built: whether the constructor, if called, succeeds
getSequelize(built) ==
    IF sequelize = NoHandle
    THEN IF "DATABASE_URL" \notin DOMAIN env \/ Falsy(env.DATABASE_URL)
         THEN Throw([message |-> "DATABASE_URL is not defined"])
         ELSE IF built
         THEN Return(Handle(NewSequelize(env.DATABASE_URL, env.NODE_ENV)))
         ELSE Throw(DriverMissing)
    ELSE Return(sequelize)

\* error.code || 'N/A'
CodeOf(error) ==
    IF "code" \in DOMAIN error /\ ~Falsy(error.code) THEN error.code ELSE "N/A"

\* the lines the catch block of connectDB writes
CatchLines(error) ==
    <<"Database Connection Error:",
      "Message: " \o error.message,
      "Code: " \o CodeOf(error)>>
    \o (IF "parent" \in DOMAIN error
        THEN <<"Parent Error: " \o error.parent.message>> ELSE <<>>)
    \o <<"Server will continue without database. Auth features will not work.">>

\* how an async call settles
Returned(value) == [outcome |-> "returned", value |-> value]
Rejected(error) == [outcome |-> "rejected", error |-> error]

\* a catch block that passes the error on
ConnectCatchRethrow(error) == Rejected(error)

\* the catch block of connectDB: return false
ConnectCatch(error) == Returned(FALSE)

Step(call, ok) == [call |-> call, ok |-> ok]

\* connectDB(), up to await db.authenticate()
ConnectDB ==
    /\ connectPc = "idle"
    /\ Len(results) < MaxConnects
    /\ \E built \in BOOLEAN :
          LET got == getSequelize(built)
              attempt == <<"Attempting to connect to PostgreSQL...">>
          IN  IF got.threw
              THEN /\ trace' = <<Step("getSequelize", FALSE)>>
                   /\ console' = attempt \o CatchLines(got.error)
                   /\ results' = Append(results, ConnectCatch(got.error))
                   /\ UNCHANGED <<sequelize, connectPc>>
              ELSE /\ sequelize' = got.value
                   /\ connectPc' = "authenticate"
                   /\ trace' = <<Step("getSequelize", TRUE)>>
                   /\ console' = attempt
                   /\ UNCHANGED results
    /\ UNCHANGED <<env, appVars>>

\* db.authenticate() resolves: the three lines, up to await db.sync()
AuthenticateResolves ==
    /\ connectPc = "authenticate"
    /\ connectPc' = "sync"
    /\ trace' = Append(trace, Step("authenticate", TRUE))
    /\ console' = console \o <<"PostgreSQL connected successfully!",
                               "Database: " \o sequelize[1].config.database,
                               "Host: " \o sequelize[1].config.host>>
    /\ UNCHANGED <<env, sequelize, results, appVars>>

\* db.authenticate() rejects: the catch block
AuthenticateRejects(error) ==
    /\ connectPc = "authenticate"
    /\ connectPc' = "idle"
    /\ trace' = Append(trace, Step("authenticate", FALSE))
    /\ console' = console \o CatchLines(error)
    /\ results' = Append(results, ConnectCatch(error))
    /\ UNCHANGED <<env, sequelize, appVars>>

\* db.sync() resolves: return true
SyncResolves ==
    /\ connectPc = "sync"
    /\ connectPc' = "idle"
    /\ trace' = Append(trace, Step("sync", TRUE))
    /\ console' = Append(console, "Database models synced successfully")
    /\ results' = Append(results, Returned(TRUE))
    /\ UNCHANGED <<env, sequelize, appVars>>

\* db.sync() rejects: the catch block
SyncRejects(error) ==
    /\ connectPc = "sync"
    /\ connectPc' = "idle"
    /\ trace' = Append(trace, Step("sync", FALSE))
    /\ console' = console \o CatchLines(error)
    /\ results' = Append(results, ConnectCatch(error))
    /\ UNCHANGED <<env, sequelize, appVars>>

\* the steps of a connectDB call that returned true
AllSucceeded ==
    <<Step("getSequelize", TRUE), Step("authenticate", TRUE), Step("sync", TRUE)>>

\* the server is up and its one connectDB call has returned true: the
\* state the routes are served in
DbConnected ==
    /\ env = [NODE_ENV |-> "development", DATABASE_URL |-> DatabaseUrl]
    /\ sequelize = Handle(NewSequelize(DatabaseUrl, "development"))
    /\ connectPc = "idle"
    /\ trace = AllSucceeded
    /\ console = <<"Attempting to connect to PostgreSQL...",
                   "PostgreSQL connected successfully!",
                   "Database: chain", "Host: db.example",
                   "Database models synced successfully">>
    /\ results = <<Returned(TRUE)>>

(***************************************************************************)
(* The User model (models/UserSQL.js), from the data model of the spec:    *)
(* unique id, unique username, unique email, password hash, active flag    *)
(* (default true), last login (nullable).                                  *)
(***************************************************************************)
\* one-way hash, verifiable by comparePassword
HashPassword(password) == "bcrypt$" \o password

comparePassword(user, password) == user.password = HashPassword(password)

\* the unique columns of the users table a new row would collide on
UniqueViolations(rows, body) ==
    {f \in {"email", "username"} : \E u \in rows : u[f] = body[f]}

NewUser(id, body) ==
    [id |-> id, username |-> body.username, email |-> body.email,
     password |-> HashPassword(body.password), isActive |-> TRUE,
     lastLogin |-> NoDate]

\* jwt.sign({ userId }, secret, { expiresIn: '7d' })
generateToken(userId) == [userId |-> userId, expiresIn |-> "7d"]

(***************************************************************************)
(* POST /register                                                          *)
(***************************************************************************)
\* every complete body, and the bodies that lack one field
RegisterBodies ==
    [username : Usernames, email : Emails, password : {"pw1"}]
    \cup [username : {""}, email : {"a@x.io"}, password : {"pw1"}]
    \cup [username : {"alice"}, email : {""}, password : {"pw1"}]
    \cup [username : {"alice"}, email : {"a@x.io"}, password : {""}]

RegisterMissing(body) ==
    Falsy(body.username) \/ Falsy(body.email) \/ Falsy(body.password)

\* where: { [Op.or]: [{ email }, { username }] }
RegisterMatches(body) ==
    {u \in users : u.email = body.email \/ u.username = body.username}

RegisterFieldSwapped(existingUser, email) ==
    IF existingUser.email = email THEN "Username" ELSE "Email"

RegisterField(existingUser, email) ==
    IF existingUser.email = email THEN "Email" ELSE "Username"

RegisterCatchValidationOnly(name, messages) ==
    IF name = "SequelizeValidationError"
    THEN Failure(400, Join(messages, ", "))
    ELSE Failure(500, "Server error during registration. Please try again.")

\* the catch block of the handler
RegisterCatch(name, messages) ==
    IF name = "SequelizeValidationError" \/ name = "SequelizeUniqueConstraintError"
    THEN Failure(400, Join(messages, ", "))
    ELSE Failure(500, "Server error during registration. Please try again.")

\* validation, then await User.findOne
RegisterCheck(p, body) ==
    /\ pc[p] = "idle"
    /\ IF RegisterMissing(body)
       THEN /\ out' = [op |-> "register", body |-> body,
                       res |-> Failure(400, "Please provide username, email, and password.")]
            /\ UNCHANGED <<pc, loc>>
       ELSE IF RegisterMatches(body) # {}
       THEN /\ \E existingUser \in RegisterMatches(body) :
                 out' = [op |-> "register", body |-> body,
                         res |-> Failure(400, RegisterField(existingUser, body.email)
                                                \o " is already registered.")]
            /\ UNCHANGED <<pc, loc>>
       ELSE /\ pc' = [pc EXCEPT ![p] = "register_create"]
            /\ loc' = [loc EXCEPT ![p] = body]
            /\ UNCHANGED out
    /\ UNCHANGED <<users, apiKeys, nextUserId, nextKeyId, now, ledger, revoked, usageCalls, refused, dbVars>>

\* await User.create, then the response
RegisterCreate(p) ==
    /\ pc[p] = "register_create"
    /\ LET body == loc[p]
           violated == UniqueViolations(users, body)
           user == NewUser(nextUserId, body)
       IN  IF violated # {}
           THEN /\ \E f \in violated :
                     out' = [op |-> "register", body |-> body,
                             res |-> RegisterCatch("SequelizeUniqueConstraintError",
                                                   <<f \o " must be unique">>)]
                /\ UNCHANGED <<users, nextUserId>>
           ELSE /\ users' = users \cup {user}
                /\ nextUserId' = nextUserId + 1
                /\ out' = [op |-> "register", body |-> body,
                           res |-> Response(201,
                               [success |-> TRUE,
                                message |-> "Account created successfully.",
                                data |-> [user |-> [id |-> user.id,
                                                    username |-> user.username,
                                                    email |-> user.email],
                                          token |-> generateToken(user.id)]])]
    /\ pc' = [pc EXCEPT ![p] = "idle"]
    /\ loc' = [loc EXCEPT ![p] = Idle]
    /\ UNCHANGED <<apiKeys, nextKeyId, now, ledger, revoked, usageCalls, refused, dbVars>>

(***************************************************************************)
(* POST /login                                                             *)
(***************************************************************************)
LoginBodies ==
    [email : Emails, password : Passwords]
    \cup [email : {""}, password : {"pw1"}]
    \cup [email : {"a@x.io"}, password : {""}]

LoginMissing(body) == Falsy(body.email) \/ Falsy(body.password)

InvalidCredentials == Failure(401, "Invalid email or password.")

LoginDisabledUniform(user) == InvalidCredentials

\* the answer to a user whose active flag is false
LoginDisabled(user) == Failure(401, "Account is disabled. Please contact support.")

\* validation, then await User.findOne, then the active check
LoginFind(p, body) ==
    /\ pc[p] = "idle"
    /\ LET found == {u \in users : u.email = body.email}
       IN  IF LoginMissing(body)
           THEN /\ out' = [op |-> "login", body |-> body,
                           res |-> Failure(400, "Please provide email and password.")]
                /\ UNCHANGED <<pc, loc>>
           ELSE IF found = {}
           THEN /\ out' = [op |-> "login", body |-> body, res |-> InvalidCredentials]
                /\ UNCHANGED <<pc, loc>>
           ELSE \E user \in found :
                    IF ~user.isActive
                    THEN /\ out' = [op |-> "login", body |-> body,
                                    res |-> LoginDisabled(user)]
                         /\ UNCHANGED <<pc, loc>>
                    ELSE /\ pc' = [pc EXCEPT ![p] = "login_compare"]
                         /\ loc' = [loc EXCEPT ![p] = [user |-> user, body |-> body]]
                         /\ UNCHANGED out
    /\ UNCHANGED <<users, apiKeys, nextUserId, nextKeyId, now, ledger, revoked, usageCalls, refused, dbVars>>

\* await user.comparePassword, then user.lastLogin = new Date(), await
\* user.save() (an UPDATE of the changed column of that row), the response
LoginFinish(p) ==
    /\ pc[p] = "login_compare"
    /\ LET user == loc[p].user
           body == loc[p].body
       IN  IF ~comparePassword(user, body.password)
           THEN /\ out' = [op |-> "login", body |-> body, res |-> InvalidCredentials]
                /\ UNCHANGED users
           ELSE /\ users' = {IF u.id = user.id THEN [u EXCEPT !.lastLogin = Date(now)]
                                               ELSE u : u \in users}
                /\ out' = [op |-> "login", body |-> body,
                           res |-> Response(200,
                               [success |-> TRUE, message |-> "Login successful.",
                                data |-> [user |-> [id |-> user.id,
                                                    username |-> user.username,
                                                    email |-> user.email,
                                                    lastLogin |-> Date(now)],
                                          token |-> generateToken(user.id)]])]
    /\ pc' = [pc EXCEPT ![p] = "idle"]
    /\ loc' = [loc EXCEPT ![p] = Idle]
    /\ UNCHANGED <<apiKeys, nextUserId, nextKeyId, now, ledger, revoked, usageCalls, refused, dbVars>>

\* the administrator's change of a user's active flag (no route; the data
\* model of the spec names it)
AdminSetActive(id, flag) ==
    /\ \E u \in users : u.id = id /\ u.isActive # flag
    /\ users' = {IF u.id = id THEN [u EXCEPT !.isActive = flag] ELSE u : u \in users}
    /\ UNCHANGED <<apiKeys, nextUserId, nextKeyId, now, pc, loc, out,
                   ledger, revoked, usageCalls, refused, dbVars>>

(***************************************************************************)
(* The session specification: an empty store, two request slots.           *)
(***************************************************************************)
NoRequest == [op |-> "none"]

InitAuth ==
    /\ users = {}
    /\ apiKeys = {}
    /\ nextUserId = 1
    /\ nextKeyId = 1
    /\ now = 0
    /\ pc = [p \in Procs |-> "idle"]
    /\ loc = [p \in Procs |-> Idle]
    /\ out = NoRequest
    /\ ledger = {}
    /\ revoked = {}
    /\ usageCalls = <<>>
    /\ refused = {}
    /\ DbConnected

NextAuth ==
    \/ \E p \in Procs, body \in RegisterBodies : RegisterCheck(p, body)
    \/ \E p \in Procs : RegisterCreate(p)
    \/ \E p \in Procs, body \in LoginBodies : LoginFind(p, body)
    \/ \E p \in Procs : LoginFinish(p)
    \/ \E id \in 1..Cardinality(Emails), flag \in BOOLEAN : AdminSetActive(id, flag)

SpecAuth == InitAuth /\ [][NextAuth]_vars

(***************************************************************************)
(* The APIKey model.                                                       *)
(***************************************************************************)
\* crypto.randomBytes(32)
RandomBytes == 32
\* key.slice(-8)
PreviewLen == 8
\* validate: len: [1, 50]
NameMaxLen == 50
\* activeKeysCount >= 10
MaxActiveKeys == 10

DefaultPermissions ==
    [analyze |-> TRUE, riskScore |-> TRUE, fullAnalysis |-> TRUE,
     batch |-> TRUE, registration |-> TRUE]

DefaultRateLimit == [requestsPerMinute |-> 60, requestsPerDay |-> 10000]

HexDigits == "0123456789abcdef"

\* Buffer.toString('hex') of the bytes drawn: two digits a byte.  The draw
\* is a number; its digits are spread so that draws differ in every window
\* of the string.
RECURSIVE HexString(_, _)
HexString(draw, len) ==
    IF len = 0 THEN ""
    ELSE HexString(draw, len - 1)
         \o SubSeq(HexDigits, ((draw * len) % 16) + 1, ((draw * len) % 16) + 1)

\* the hex strings of the draws, computed once
RandomHex == [draw \in 1..15 |-> HexString(draw, 2 * RandomBytes)]

\* APIKey.generateKey: prefix, underscore, the hex of 32 random bytes.  The
\* random source does not repeat itself: each call has a draw of its own.
generateKey(draw) == "cp" \o "_" \o RandomHex[draw]

\* String.prototype.slice(-n)
SliceLast(s, n) == SubSeq(s, IF Len(s) > n THEN Len(s) - n + 1 ELSE 1, Len(s))

isExpiredInclusive(apiKey, t) ==
    IF apiKey.expiresAt = NoDate THEN FALSE ELSE t >= Time(apiKey.expiresAt)

\* APIKey.prototype.isExpired at the time t of the call; a Date object is
\* truthy whatever its value, null is not
isExpired(apiKey, t) ==
    IF apiKey.expiresAt = NoDate THEN FALSE ELSE t > Time(apiKey.expiresAt)

toJSONKeepingKey(values) ==
    IF "key" \in DOMAIN values /\ ~Falsy(values.key)
    THEN [f \in DOMAIN values \cup {"keyPreview"} |->
             IF f = "keyPreview" THEN "..." \o SliceLast(values.key, PreviewLen)
             ELSE values[f]]
    ELSE values

\* APIKey.prototype.toJSON over the attributes the instance holds
toJSON(values) ==
    IF "key" \in DOMAIN values /\ ~Falsy(values.key)
    THEN [f \in (DOMAIN values \ {"key"}) \cup {"keyPreview"} |->
             IF f = "keyPreview" THEN "..." \o SliceLast(values.key, PreviewLen)
             ELSE values[f]]
    ELSE values

\* attributes: { exclude: [...] }
Exclude(row, attrs) == [f \in DOMAIN row \ attrs |-> row[f]]

\* the name validator of the model
NameValid(name) == Len(name) >= 1 /\ Len(name) <= NameMaxLen

\* APIKey.count({ where: { userId, isActive: true } })
ActiveKeysCount(userId) ==
    Cardinality({k \in apiKeys : k.userId = userId /\ k.isActive})

FindAnyOwner(keyId, userId) == {k \in apiKeys : k.id = keyId}

\* APIKey.findOne({ where: { id: keyId, userId: req.user.id } })
FindOwnedKey(keyId, userId) ==
    {k \in apiKeys : k.id = keyId /\ k.userId = userId}

\* what verifyToken leaves in req.user: the user row without its password
PublicUser(u) == Exclude(u, {"password"})

(***************************************************************************)
(* POST /api-keys                                                          *)
(***************************************************************************)
QuotaReachedOffByOne(activeKeysCount) == activeKeysCount > MaxActiveKeys

QuotaReached(activeKeysCount) == activeKeysCount >= MaxActiveKeys

\* expiresInDays && expiresInDays > 0: now plus that many days, else null
ExpiresAt(body, t) ==
    IF "expiresInDays" \in DOMAIN body /\ body.expiresInDays > 0
    THEN Date(t + body.expiresInDays)
    ELSE NoDate

\* permissions || undefined: the column default when none is given
PermissionsOf(body) ==
    IF "permissions" \in DOMAIN body THEN body.permissions ELSE DefaultPermissions

\* the catch block of the handler
CreateKeyCatch(name, messages) ==
    IF name = "SequelizeValidationError"
    THEN Failure(400, Join(messages, ", "))
    ELSE Failure(500, "Server error during API key generation.")

\* validation, then await APIKey.count, then the quota check
CreateKeyCount(p, u, body) ==
    /\ pc[p] = "idle"
    /\ IF Falsy(body.name)
       THEN /\ out' = [op |-> "createKey", user |-> u.id, body |-> body,
                       res |-> Failure(400, "Please provide a name for the API key.")]
            /\ UNCHANGED <<pc, loc, refused>>
       ELSE IF QuotaReached(ActiveKeysCount(u.id))
       THEN /\ out' = [op |-> "createKey", user |-> u.id, body |-> body,
                       res |-> Failure(400, "Maximum limit of 10 active API keys reached. Please revoke unused keys.")]
            /\ refused' = refused \cup {u.id}
            /\ UNCHANGED <<pc, loc>>
       ELSE /\ pc' = [pc EXCEPT ![p] = "apikey_create"]
            /\ loc' = [loc EXCEPT ![p] = [user |-> u.id, body |-> body]]
            /\ UNCHANGED <<out, refused>>
    /\ UNCHANGED <<users, apiKeys, nextUserId, nextKeyId, now, ledger, revoked, usageCalls, dbVars>>

\* generateKey, the expiry, await APIKey.create, then the response
CreateKeyInsert(p) ==
    /\ pc[p] = "apikey_create"
    /\ LET body == loc[p].body
           key == generateKey(nextKeyId)
           apiKey == [id |-> nextKeyId, key |-> key, userId |-> loc[p].user,
                      name |-> body.name, isActive |-> TRUE, lastUsed |-> NoDate,
                      usageCount |-> 0, permissions |-> PermissionsOf(body),
                      rateLimit |-> DefaultRateLimit,
                      expiresAt |-> ExpiresAt(body, now), createdAt |-> Date(now)]
       IN  IF ~NameValid(body.name)
           THEN /\ out' = [op |-> "createKey", user |-> loc[p].user, body |-> body,
                           res |-> CreateKeyCatch("SequelizeValidationError",
                                       <<"Name cannot exceed 50 characters">>)]
                /\ UNCHANGED <<apiKeys, ledger, usageCalls, refused>>
           ELSE IF \E k \in apiKeys : k.key = key
           THEN /\ out' = [op |-> "createKey", user |-> loc[p].user, body |-> body,
                           res |-> CreateKeyCatch("SequelizeUniqueConstraintError",
                                       <<"key must be unique">>)]
                /\ UNCHANGED <<apiKeys, ledger, usageCalls, refused>>
           ELSE /\ apiKeys' = apiKeys \cup {apiKey}
                /\ ledger' = ledger \cup {[id |-> apiKey.id, userId |-> apiKey.userId,
                                           key |-> key]}
                /\ usageCalls' = (apiKey.id :> 0) @@ usageCalls
                /\ out' = [op |-> "createKey", user |-> loc[p].user, body |-> body,
                           res |-> Response(201,
                               [success |-> TRUE,
                                message |-> "API key created successfully.",
                                data |-> [apiKey |-> key, name |-> apiKey.name,
                                          id |-> apiKey.id,
                                          permissions |-> apiKey.permissions,
                                          expiresAt |-> apiKey.expiresAt,
                                          createdAt |-> apiKey.createdAt],
                                warning |-> "Please save this API key securely. You will not be able to see it again."])]
    /\ nextKeyId' = nextKeyId + 1
    /\ pc' = [pc EXCEPT ![p] = "idle"]
    /\ loc' = [loc EXCEPT ![p] = Idle]
    /\ UNCHANGED <<users, nextUserId, now, revoked, refused, dbVars>>

(***************************************************************************)
(* GET /api-keys                                                           *)
(***************************************************************************)
ListWhereAll(userId) == apiKeys

\* where: { userId: req.user.id }
ListWhere(userId) == {k \in apiKeys : k.userId = userId}

\* order: [['createdAt', 'DESC']]: every order of the rows that is newest
\* first (rows created at the same time come in any order)
NewestFirst(rows) ==
    {s \in [1..Cardinality(rows) -> rows] :
        /\ \A i, j \in DOMAIN s : i # j => s[i] # s[j]
        /\ \A i, j \in DOMAIN s : i < j => Time(s[i].createdAt) >= Time(s[j].createdAt)}

\* await APIKey.findAll without the key column, toJSON of each, the response
ListKeys(p, u) ==
    /\ pc[p] = "idle"
    /\ \E found \in NewestFirst(ListWhere(u.id)) :
          LET instances == [i \in DOMAIN found |-> Exclude(found[i], {"key"})]
          IN  out' = [op |-> "listKeys", user |-> u.id,
                      res |-> Response(200,
                          [success |-> TRUE, count |-> Len(instances),
                           data |-> [i \in DOMAIN instances |-> toJSON(instances[i])]])]
    /\ UNCHANGED <<users, apiKeys, nextUserId, nextKeyId, now, pc, loc,
                   ledger, revoked, usageCalls, refused, dbVars>>

(***************************************************************************)
(* DELETE /api-keys/:keyId                                                 *)
(***************************************************************************)
KeyNotFound == Failure(404, "API key not found.")

\* await APIKey.findOne, then the 404
RevokeFind(p, u, keyId) ==
    /\ pc[p] = "idle"
    /\ IF FindOwnedKey(keyId, u.id) = {}
       THEN /\ out' = [op |-> "revokeKey", user |-> u.id, keyId |-> keyId,
                       res |-> KeyNotFound]
            /\ UNCHANGED <<pc, loc>>
       ELSE \E apiKey \in FindOwnedKey(keyId, u.id) :
               /\ pc' = [pc EXCEPT ![p] = "revoke_destroy"]
               /\ loc' = [loc EXCEPT ![p] = [user |-> u.id, apiKey |-> apiKey]]
               /\ UNCHANGED out
    /\ UNCHANGED <<users, apiKeys, nextUserId, nextKeyId, now, ledger, revoked, usageCalls, refused, dbVars>>

\* await apiKey.destroy() (DELETE of the row with that id), the response
RevokeDestroy(p) ==
    /\ pc[p] = "revoke_destroy"
    /\ LET apiKey == loc[p].apiKey
       IN  /\ apiKeys' = {k \in apiKeys : k.id # apiKey.id}
           /\ revoked' = revoked \cup {<<apiKey.id, loc[p].user>>}
           /\ out' = [op |-> "revokeKey", user |-> loc[p].user, keyId |-> apiKey.id,
                      res |-> Response(200,
                          [success |-> TRUE, message |-> "API key revoked successfully.",
                           data |-> [id |-> apiKey.id, name |-> apiKey.name]])]
    /\ pc' = [pc EXCEPT ![p] = "idle"]
    /\ loc' = [loc EXCEPT ![p] = Idle]
    /\ UNCHANGED <<users, nextUserId, nextKeyId, now, ledger, usageCalls, refused, dbVars>>

(***************************************************************************)
(* PATCH /api-keys/:keyId                                                  *)
(***************************************************************************)
\* if (name !== undefined) apiKey.name = name; the same for isActive
Assigned(apiKey, body) ==
    [f \in DOMAIN apiKey |->
        IF f \in {"name", "isActive"} /\ f \in DOMAIN body THEN body[f] ELSE apiKey[f]]

\* a save() that writes both columns from the instance, changed or not
ChangedColumnsAll(apiKey, body) == {"name", "isActive"}

\* the columns save() writes: those whose value the handler changed
ChangedColumns(apiKey, body) ==
    {f \in {"name", "isActive"} : f \in DOMAIN body /\ body[f] # apiKey[f]}

\* await APIKey.findOne, then the 404
UpdateFind(p, u, keyId, body) ==
    /\ pc[p] = "idle"
    /\ IF FindOwnedKey(keyId, u.id) = {}
       THEN /\ out' = [op |-> "updateKey", user |-> u.id, keyId |-> keyId, body |-> body,
                       res |-> KeyNotFound]
            /\ UNCHANGED <<pc, loc>>
       ELSE \E apiKey \in FindOwnedKey(keyId, u.id) :
               /\ pc' = [pc EXCEPT ![p] = "update_save"]
               /\ loc' = [loc EXCEPT ![p] = [user |-> u.id, apiKey |-> apiKey,
                                             body |-> body]]
               /\ UNCHANGED out
    /\ UNCHANGED <<users, apiKeys, nextUserId, nextKeyId, now, ledger, revoked, usageCalls, refused, dbVars>>

\* the assignments, await apiKey.save() (validation of the changed columns,
\* then an UPDATE of them in the row with that id), the response
UpdateSave(p) ==
    /\ pc[p] = "update_save"
    /\ LET body == loc[p].body
           changed == ChangedColumns(loc[p].apiKey, body)
           apiKey == Assigned(loc[p].apiKey, body)
       IN  IF "name" \in changed /\ ~NameValid(apiKey.name)
           THEN /\ out' = [op |-> "updateKey", user |-> loc[p].user,
                           keyId |-> apiKey.id, body |-> body,
                           res |-> Failure(500, "Server error while updating API key.")]
                /\ UNCHANGED apiKeys
           ELSE /\ apiKeys' = {IF k.id = apiKey.id
                               THEN [f \in DOMAIN k |->
                                        IF f \in changed THEN apiKey[f] ELSE k[f]]
                               ELSE k : k \in apiKeys}
                /\ out' = [op |-> "updateKey", user |-> loc[p].user,
                           keyId |-> apiKey.id, body |-> body,
                           res |-> Response(200,
                               [success |-> TRUE,
                                message |-> "API key updated successfully.",
                                data |-> toJSON(apiKey)])]
    /\ pc' = [pc EXCEPT ![p] = "idle"]
    /\ loc' = [loc EXCEPT ![p] = Idle]
    /\ UNCHANGED <<users, nextUserId, nextKeyId, now, ledger, revoked, usageCalls, refused, dbVars>>

(***************************************************************************)
(* GET /me                                                                 *)
(***************************************************************************)
\* await APIKey.count, the response
Me(p, u) ==
    /\ pc[p] = "idle"
    /\ out' = [op |-> "me", user |-> u.id,
               res |-> Response(200,
                   [success |-> TRUE,
                    data |-> [user |-> PublicUser(u),
                              apiKeyCount |-> ActiveKeysCount(u.id)]])]
    /\ UNCHANGED <<users, apiKeys, nextUserId, nextKeyId, now, pc, loc,
                   ledger, revoked, usageCalls, refused, dbVars>>

\* the clock moves on
Tick ==
    /\ now < MaxTime
    /\ now' = now + 1
    /\ UNCHANGED <<users, apiKeys, nextUserId, nextKeyId, pc, loc, out,
                   ledger, revoked, usageCalls, refused, dbVars>>

(***************************************************************************)
(* The key specification: alice and bob are registered, no key exists.     *)
(***************************************************************************)
Registered ==
    {NewUser(1, [username |-> "alice", email |-> "a@x.io", password |-> "pw1"]),
     NewUser(2, [username |-> "bob", email |-> "b@x.io", password |-> "pw1"])}

\* a name of 51 characters
LongName == "123456789012345678901234567890123456789012345678901"

ReadOnly ==
    [analyze |-> TRUE, riskScore |-> TRUE, fullAnalysis |-> FALSE,
     batch |-> FALSE, registration |-> FALSE]

CreateBodies ==
    {[name |-> "ci", permissions |-> ReadOnly, expiresInDays |-> 1],
     [name |-> ""],
     [name |-> LongName]}

UpdateBodies ==
    {[name |-> "prod"], [isActive |-> FALSE], [isActive |-> TRUE],
     [name |-> LongName]}

\* the key specification serves the key requests one after another (their
\* interleavings are the quota specification's)
KeySlots == {"p1"}

\* ids are left for the requests that are about to insert and one more
KeyIdsLeft(limit) ==
    nextKeyId + Cardinality({p \in Procs : pc[p] = "apikey_create"}) <= limit

InitKeys ==
    /\ users = Registered
    /\ apiKeys = {}
    /\ nextUserId = 3
    /\ nextKeyId = 1
    /\ now = 0
    /\ pc = [p \in Procs |-> "idle"]
    /\ loc = [p \in Procs |-> Idle]
    /\ out = NoRequest
    /\ ledger = {}
    /\ revoked = {}
    /\ usageCalls = <<>>
    /\ refused = {}
    /\ DbConnected

NextKeys ==
    \/ \E p \in KeySlots, u \in users, body \in CreateBodies :
          KeyIdsLeft(MaxKeyId) /\ CreateKeyCount(p, u, body)
    \/ \E p \in KeySlots : CreateKeyInsert(p)
    \/ \E p \in KeySlots, u \in users : ListKeys(p, u)
    \/ \E p \in KeySlots, u \in users, keyId \in 1..MaxKeyId : RevokeFind(p, u, keyId)
    \/ \E p \in KeySlots : RevokeDestroy(p)
    \/ \E p \in KeySlots, u \in users, keyId \in 1..MaxKeyId, body \in UpdateBodies :
          UpdateFind(p, u, keyId, body)
    \/ \E p \in KeySlots : UpdateSave(p)
    \/ \E p \in KeySlots, u \in users : Me(p, u)

SpecKeys == InitKeys /\ [][NextKeys]_vars

(***************************************************************************)
(* The quota specification: alice's requests to create keys, and to revoke *)
(* or switch her first keys, in two slots.                                 *)
(***************************************************************************)
QuotaUsers == {u \in users : u.username = "alice"}

QuotaCreateBodies == {[name |-> "ci"]}

QuotaUpdateBodies == {[isActive |-> FALSE], [isActive |-> TRUE]}

\* the keys her revoke and update requests name
QuotaTargets == 1..2

NextQuota ==
    \/ \E p \in Procs, u \in QuotaUsers, body \in QuotaCreateBodies :
          KeyIdsLeft(QuotaMaxKeyId) /\ CreateKeyCount(p, u, body)
    \/ \E p \in Procs : CreateKeyInsert(p)
    \/ \E p \in Procs, u \in QuotaUsers, keyId \in QuotaTargets : RevokeFind(p, u, keyId)
    \/ \E p \in Procs : RevokeDestroy(p)
    \/ \E p \in Procs, u \in QuotaUsers, keyId \in QuotaTargets,
          body \in QuotaUpdateBodies : UpdateFind(p, u, keyId, body)
    \/ \E p \in Procs : UpdateSave(p)

SpecQuota == InitKeys /\ [][NextQuota]_vars

(***************************************************************************)
(* The update specification: alice and bob create a key each at most, and  *)
(* send update and revoke requests for the two keys, in two slots, so that *)
(* a save() meets a row that has changed since its findOne.                *)
(***************************************************************************)
UpdateCreateBodies == {[name |-> "ci"]}

\* name alone, isActive alone, both, and a body with fields the handler
\* does not read
FrameBodies ==
    {[name |-> "prod"], [isActive |-> FALSE],
     [name |-> "prod", isActive |-> FALSE],
     [usageCount |-> 7, key |-> "cp_0"]}

\* the keys the update and revoke requests name
UpdateTargets == 1..2

NextUpdate ==
    \/ \E p \in Procs, u \in users, body \in UpdateCreateBodies :
          KeyIdsLeft(Cardinality(UpdateTargets)) /\ CreateKeyCount(p, u, body)
    \/ \E p \in Procs : CreateKeyInsert(p)
    \/ \E p \in Procs, u \in users, keyId \in UpdateTargets, body \in FrameBodies :
          UpdateFind(p, u, keyId, body)
    \/ \E p \in Procs : UpdateSave(p)
    \/ \E p \in Procs, u \in users, keyId \in UpdateTargets : RevokeFind(p, u, keyId)
    \/ \E p \in Procs : RevokeDestroy(p)

SpecUpdate == InitKeys /\ [][NextUpdate]_vars

(***************************************************************************)
(* The key authorization gate: a request presenting a key loads the key's  *)
(* row into an instance, and calls isExpired and recordUsage on it.        *)
(***************************************************************************)
\* APIKey.findOne by id: the instance holds the row as it is now
LoadKey(p, keyId) ==
    /\ pc[p] = "idle"
    /\ \E apiKey \in {k \in apiKeys : k.id = keyId} :
          /\ pc' = [pc EXCEPT ![p] = "key_loaded"]
          /\ loc' = [loc EXCEPT ![p] = [apiKey |-> apiKey]]
    /\ UNCHANGED <<users, apiKeys, nextUserId, nextKeyId, now, out,
                   ledger, revoked, usageCalls, refused, dbVars>>

\* apiKey.isExpired() now
CheckExpired(p) ==
    /\ pc[p] = "key_loaded"
    /\ out' = [op |-> "isExpired", expiresAt |-> loc[p].apiKey.expiresAt,
               at |-> now, result |-> isExpired(loc[p].apiKey, now)]
    /\ UNCHANGED <<users, apiKeys, nextUserId, nextKeyId, now, pc, loc,
                   ledger, revoked, usageCalls, refused, dbVars>>

\* the two assignments of recordUsage, on the instance
recordUsage(apiKey, t) ==
    [apiKey EXCEPT !.lastUsed = Date(t), !.usageCount = @ + 1]

\* await apiKey.recordUsage(): the assignments, then save(), an UPDATE of
\* the two columns of the row with that id to the instance's values
RecordUsage(p) ==
    /\ pc[p] = "key_loaded"
    /\ loc[p].apiKey.usageCount < MaxUsage
    /\ LET apiKey == recordUsage(loc[p].apiKey, now)
       IN  /\ apiKeys' = {IF k.id = apiKey.id
                          THEN [k EXCEPT !.lastUsed = apiKey.lastUsed,
                                         !.usageCount = apiKey.usageCount]
                          ELSE k : k \in apiKeys}
           /\ loc' = [loc EXCEPT ![p] = [apiKey |-> apiKey]]
           /\ usageCalls' = [usageCalls EXCEPT ![apiKey.id] = @ + 1]
           /\ out' = [op |-> "recordUsage", keyId |-> apiKey.id,
                      usageCount |-> apiKey.usageCount]
    /\ UNCHANGED <<users, nextUserId, nextKeyId, now, pc, ledger, revoked, refused, dbVars>>

\* the request ends
Release(p) ==
    /\ pc[p] = "key_loaded"
    /\ pc' = [pc EXCEPT ![p] = "idle"]
    /\ loc' = [loc EXCEPT ![p] = Idle]
    /\ UNCHANGED <<users, apiKeys, nextUserId, nextKeyId, now, out,
                   ledger, revoked, usageCalls, refused, dbVars>>

\* the gate specification follows one key: the claims about the gate are
\* about the calls on one stored key
GateKeyIds == {1}

GateCreateBodies ==
    {[name |-> "ci"], [name |-> "ci", expiresInDays |-> 1],
     [name |-> "ci", expiresInDays |-> 2]}

NextGate ==
    \/ \E u \in QuotaUsers, body \in GateCreateBodies :
          KeyIdsLeft(Cardinality(GateKeyIds)) /\ CreateKeyCount("p1", u, body)
    \/ CreateKeyInsert("p1")
    \/ \E p \in Procs, keyId \in GateKeyIds : LoadKey(p, keyId)
    \/ \E p \in Procs : CheckExpired(p)
    \/ \E p \in Procs : RecordUsage(p)
    \/ \E p \in Procs : Release(p)
    \/ Tick

SpecGate == InitKeys /\ [][NextGate]_vars

(***************************************************************************)
(* The connection specification: the process starts with no handle and one *)
(* of the environments, and calls connectDB, one call after another.       *)
(***************************************************************************)
InitDB ==
    /\ users = {}
    /\ apiKeys = {}
    /\ nextUserId = 1
    /\ nextKeyId = 1
    /\ now = 0
    /\ pc = [p \in Procs |-> "idle"]
    /\ loc = [p \in Procs |-> Idle]
    /\ out = NoRequest
    /\ ledger = {}
    /\ revoked = {}
    /\ usageCalls = <<>>
    /\ refused = {}
    /\ env \in Envs
    /\ sequelize = NoHandle
    /\ connectPc = "idle"
    /\ trace = <<>>
    /\ console = <<>>
    /\ results = <<>>

NextDB ==
    \/ ConnectDB
    \/ AuthenticateResolves
    \/ \E error \in StoreErrors : AuthenticateRejects(error)
    \/ SyncResolves
    \/ \E error \in StoreErrors : SyncRejects(error)

SpecDB == InitDB /\ [][NextDB]_vars

(***************************************************************************)
(* Claims about the session routes, checked under SpecAuth.                *)
(***************************************************************************)
RegisterCollides(body) ==
    \E u \in users : u.email = body.email \/ u.username = body.username

\* a 400 whose message names a field of the body that a stored user holds
NamesCollidingField(res, body) ==
    /\ res.status = 400
    /\ res.body.success = FALSE
    /\ \/ /\ res.body.error = "Email is already registered."
          /\ \E u \in users : u.email = body.email
       \/ /\ res.body.error = "Username is already registered."
          /\ \E u \in users : u.username = body.username

\* C1, as stated: every register request whose email or username equals
\* that of a stored user is answered 400 with a message naming the
\* colliding field, and leaves the stored users unchanged.
C1_AsStated ==
    [][\A p \in Procs, body \in RegisterBodies :
          (RegisterCheck(p, body) /\ RegisterCollides(body))
              => (NamesCollidingField(out'.res, body) /\ users' = users)]_vars

\* C1, amended: every register request that carries all three fields and
\* whose email or username equals that of a user stored when the handler
\* looks it up is answered 400 with a message naming the colliding field,
\* goes no further, and leaves the stored users unchanged.
C1_DuplicateRejected ==
    [][\A p \in Procs, body \in RegisterBodies :
          (RegisterCheck(p, body) /\ ~RegisterMissing(body) /\ RegisterCollides(body))
              => /\ NamesCollidingField(out'.res, body)
                 /\ out'.body = body
                 /\ pc'[p] = "idle"
                 /\ users' = users]_vars

\* a request with bob's username and a fresh email was answered
\* "Username is already registered."
C1_Witness ==
    /\ out.op = "register"
    /\ out.res.status = 400
    /\ out.res.body.error = "Username is already registered."
    /\ \E u \in users : u.username = out.body.username /\ u.email # out.body.email

\* C7: no state holds two users with the same email or the same username,
\* and a register request whose insert collides with a user stored since
\* its lookup creates nothing and is answered 400 (not 500).
C7_ConcurrentRegister ==
    /\ [](\A u, v \in users :
             (u.email = v.email \/ u.username = v.username \/ u.id = v.id) => u = v)
    /\ [][\A p \in Procs :
             (RegisterCreate(p) /\ UniqueViolations(users, loc[p]) # {})
                 => /\ users' = users
                    /\ out'.res.status = 400
                    /\ out'.res.body.success = FALSE
                    /\ out'.res.body.error \in {"email must be unique",
                                                "username must be unique"}]_vars

\* the loser of two registrations of the same email was answered 400, and
\* one user holds that email
C7_Witness ==
    /\ out.op = "register"
    /\ out.res.status = 400
    /\ out.res.body.error = "email must be unique"
    /\ Cardinality({u \in users : u.email = out.body.email}) = 1

LoginInactive(body) == \E u \in users : u.email = body.email /\ ~u.isActive

LoginUnknown(body) == ~ \E u \in users : u.email = body.email

\* C8, as stated: with both fields present, login fails with the same 401
\* "Invalid email or password." when no user matches, when the matched
\* user is inactive and when the password comparison fails.
C8_AsStated ==
    [][\A p \in Procs :
          /\ \A body \in LoginBodies :
                (LoginFind(p, body) /\ ~LoginMissing(body)
                    /\ (LoginUnknown(body) \/ LoginInactive(body)))
                    => out'.res = [status |-> 401,
                                   body |-> [success |-> FALSE,
                                             error |-> "Invalid email or password."]]
          /\ (LoginFinish(p) /\ ~comparePassword(loc[p].user, loc[p].body.password))
                    => out'.res = [status |-> 401,
                                   body |-> [success |-> FALSE,
                                             error |-> "Invalid email or password."]]]_vars

\* C8, amended: with both fields present, login fails with the same 401
\* "Invalid email or password." when no user matches the email and when
\* the password comparison fails; when the matched user's active flag is
\* false it fails with a 401 that says "Account is disabled. Please contact
\* support.", whatever the password.
C8_LoginFailures ==
    [][\A p \in Procs :
          /\ \A body \in LoginBodies :
                /\ (LoginFind(p, body) /\ ~LoginMissing(body) /\ LoginUnknown(body))
                       => out'.res = [status |-> 401,
                                      body |-> [success |-> FALSE,
                                                error |-> "Invalid email or password."]]
                /\ (LoginFind(p, body) /\ ~LoginMissing(body) /\ LoginInactive(body))
                       => out'.res = [status |-> 401,
                                      body |-> [success |-> FALSE,
                                                error |-> "Account is disabled. Please contact support."]]
          /\ (LoginFinish(p) /\ ~comparePassword(loc[p].user, loc[p].body.password))
                    => out'.res = [status |-> 401,
                                   body |-> [success |-> FALSE,
                                             error |-> "Invalid email or password."]]]_vars

\* a login with the right password of a disabled account was answered
\* "Account is disabled."
C8_Witness ==
    /\ out.op = "login"
    /\ out.res.status = 401
    /\ out.res.body.error = "Account is disabled. Please contact support."
    /\ \E u \in users : /\ u.email = out.body.email
                        /\ ~u.isActive
                        /\ comparePassword(u, out.body.password)

(***************************************************************************)
(* Claims about the key routes, checked under SpecKeys.                    *)
(***************************************************************************)
NotFound404 ==
    [status |-> 404, body |-> [success |-> FALSE, error |-> "API key not found."]]

KeyOfAnother(keyId, userId) == \E k \in apiKeys : k.id = keyId /\ k.userId # userId

KeyAbsent(keyId) == ~ \E k \in apiKeys : k.id = keyId

\* C3: an updateKey or revokeKey request of user U on a key id owned by
\* another user is answered by the very response (404, "API key not
\* found.") that a key id of no key gets, it ends there, and no key record
\* is changed or deleted.
C3_NotOwnedAsNotFound ==
    [][\A p \in KeySlots, u \in users, keyId \in 1..MaxKeyId :
          (KeyOfAnother(keyId, u.id) \/ KeyAbsent(keyId))
              => /\ RevokeFind(p, u, keyId)
                       => (out'.res = NotFound404 /\ pc'[p] = "idle"
                           /\ apiKeys' = apiKeys)
                 /\ \A body \in UpdateBodies :
                       UpdateFind(p, u, keyId, body)
                           => (out'.res = NotFound404 /\ pc'[p] = "idle"
                               /\ apiKeys' = apiKeys)]_vars

\* a request on a key of another user was answered 404 and the key is there
C3_Witness ==
    /\ out.op \in {"updateKey", "revokeKey"}
    /\ out.res = NotFound404
    /\ KeyOfAnother(out.keyId, out.user)

\* the token the key of that id was created with
OriginalToken(id) == (CHOOSE l \in ledger : l.id = id).key

\* C4, as stated: every entry returned by listKeys omits the raw token
\* field and includes a preview field made of the last 8 characters of the
\* key's original token (with or without the leading dots).
C4_AsStated ==
    out.op = "listKeys"
        => \A i \in DOMAIN out.res.body.data :
              LET entry == out.res.body.data[i]
              IN  /\ "key" \notin DOMAIN entry
                  /\ "keyPreview" \in DOMAIN entry
                  /\ entry.keyPreview \in
                        {SliceLast(OriginalToken(entry.id), 8),
                         "..." \o SliceLast(OriginalToken(entry.id), 8)}

\* the fields of a response that hold text
TextFields ==
    {"apiKey", "key", "keyPreview", "name", "error", "message", "warning",
     "username", "email"}

TextsOf(r) == {r[f] : f \in DOMAIN r \cap TextFields}

\* every text a response carries
ResponseTexts(o) ==
    LET b == o.res.body
    IN  TextsOf(b) \cup
        (IF "data" \notin DOMAIN b THEN {}
         ELSE IF o.op = "listKeys"
              THEN UNION {TextsOf(b.data[i]) : i \in DOMAIN b.data}
         ELSE IF o.op \in {"me", "register", "login"} THEN TextsOf(b.data.user)
         ELSE TextsOf(b.data))

\* t occurs in s
Contains(s, t) ==
    \E i \in 1..(Len(s) - Len(t) + 1) : SubSeq(s, i, i + Len(t) - 1) = t

\* C5: the plaintext token of a key is in the successful createKey
\* response that created it, and a response that carries the token of a
\* key is that one: no response to a later listKeys, updateKey, revokeKey,
\* /me or createKey carries it.
C5_TokenShownOnce ==
    out.op # "none"
        => /\ \A l \in ledger :
                 (\E s \in ResponseTexts(out) : Contains(s, l.key))
                     => /\ out.op = "createKey"
                        /\ out.res.status = 201
                        /\ out.res.body.data.id = l.id
           /\ (out.op = "createKey" /\ out.res.status = 201)
                 => \E l \in ledger : /\ l.id = out.res.body.data.id
                                      /\ l.key = out.res.body.data.apiKey
                                      /\ l.userId = out.user

\* an updateKey was answered with the view of a key created before
C5_Witness ==
    /\ out.op = "updateKey"
    /\ out.res.status = 200
    /\ \E l \in ledger : l.id = out.res.body.data.id
    /\ "keyPreview" \in DOMAIN out.res.body.data

\* the ids of the keys user U created and has not since revoked
CreatedNotRevoked(userId) ==
    {l.id : l \in {m \in ledger : m.userId = userId /\ <<m.id, userId>> \notin revoked}}

\* C10: listKeys for user U returns exactly the keys that U created and
\* has not since revoked, each once.
C10_ListIsOwnLiveKeys ==
    [][\A p \in KeySlots, u \in users :
          ListKeys(p, u)
              => LET data == out'.res.body.data
                 IN  /\ {data[i].id : i \in DOMAIN data} = CreatedNotRevoked(u.id)
                     /\ Len(data) = Cardinality(CreatedNotRevoked(u.id))
                     /\ out'.res.body.count = Len(data)]_vars

\* U's list is empty after U created a key and revoked it, while a key of
\* another user is stored
C10_Witness ==
    /\ out.op = "listKeys"
    /\ out.res.body.count = 0
    /\ \E l \in ledger : l.userId = out.user /\ <<l.id, out.user>> \in revoked
    /\ \E k \in apiKeys : k.userId # out.user

(***************************************************************************)
(* Claims about the quota, checked under SpecQuota.                        *)
(***************************************************************************)
QuotaError400 ==
    [status |-> 400,
     body |-> [success |-> FALSE,
               error |-> "Maximum limit of 10 active API keys reached. Please revoke unused keys."]]

ActiveKeysOf(rows, userId) == {k \in rows : k.userId = userId /\ k.isActive}

\* C2: the createKey request (valid name) of a user with exactly 10 active
\* keys is answered with the quota error and creates no key; a revoke
\* of one of the user's active keys leaves one active key fewer; and the
\* createKey request (valid name) of a user with fewer than 10 active
\* keys goes on to insert a key, active and owned by that user, and is
\* answered 201 with its token.
C2_QuotaAtTen ==
    [][\A p \in Procs :
          /\ \A u \in users, body \in QuotaCreateBodies :
                /\ (CreateKeyCount(p, u, body)
                        /\ Cardinality(ActiveKeysOf(apiKeys, u.id)) = 10)
                       => (out'.res = QuotaError400 /\ pc'[p] = "idle"
                           /\ apiKeys' = apiKeys)
                /\ (CreateKeyCount(p, u, body)
                        /\ Cardinality(ActiveKeysOf(apiKeys, u.id)) < 10)
                       => (pc'[p] = "apikey_create" /\ loc'[p].user = u.id)
          /\ (RevokeDestroy(p) /\ loc[p].apiKey \in ActiveKeysOf(apiKeys, loc[p].user))
                => Cardinality(ActiveKeysOf(apiKeys', loc[p].user))
                      = Cardinality(ActiveKeysOf(apiKeys, loc[p].user)) - 1
          /\ (CreateKeyInsert(p) /\ NameValid(loc[p].body.name))
                => /\ out'.res.status = 201
                   /\ \E k \in apiKeys' \ apiKeys :
                         /\ apiKeys' = apiKeys \cup {k}
                         /\ k.userId = loc[p].user
                         /\ k.isActive
                         /\ k.key = out'.res.body.data.apiKey]_vars

\* alice was refused at the quota, has revoked one key since, and her
\* eleventh key has just been created: ten keys, all active
C2_Witness ==
    /\ 1 \in refused
    /\ Cardinality(revoked) = 1
    /\ out.op = "createKey"
    /\ out.res.status = 201
    /\ out.res.body.data.id = 11
    /\ Cardinality(ledger) = 11
    /\ Cardinality(ActiveKeysOf(apiKeys, 1)) = 10
    /\ Cardinality(apiKeys) = 10

(***************************************************************************)
(* Claims about the gate, checked under SpecGate.                          *)
(***************************************************************************)
\* C6, as stated: when the recordUsage calls on a key have completed, the
\* stored usage counter is its value at creation (0) plus their number.
C6_AsStated ==
    \A k \in apiKeys : k.usageCount = usageCalls[k.id]

\* C9: isExpired is true if and only if the key's expiry is set and is
\* strictly earlier than the time of the call: never for a null expiry,
\* and not for an expiry equal to or later than the time of the call.
C9_ExpiredIffPast ==
    /\ \A k \in apiKeys :
          isExpired(k, now) <=> (k.expiresAt # NoDate /\ Time(k.expiresAt) < now)
    /\ out.op = "isExpired"
          => (out.result <=> (out.expiresAt # NoDate /\ Time(out.expiresAt) < out.at))

\* isExpired was called at the very time of the expiry, and said no
C9_Witness ==
    /\ out.op = "isExpired"
    /\ out.expiresAt = Date(out.at)
    /\ out.result = FALSE


(***************************************************************************)
(* Claims about the update route, checked under SpecUpdate.                *)
(***************************************************************************)
\* the columns a request body supplies to the handler
Supplied(body) == {f \in {"name", "isActive"} : f \in DOMAIN body}

\* C11: a successful update request changes only the fields it supplies:
\* the row it names keeps every column but name (if name is supplied) and
\* isActive (if isActive is supplied), among them key, userId, permissions,
\* rateLimit, expiresAt, usageCount and lastUsed, and every other row is
\* the same before and after; no row appears or disappears.
C11_UpdateFrame ==
    [][\A p \in Procs :
          UpdateSave(p) /\ out'.res.status = 200 =>
             LET body == loc[p].body
                 id == loc[p].apiKey.id
             IN  /\ \A k \in apiKeys : \E k2 \in apiKeys' :
                       /\ k2.id = k.id
                       /\ \A f \in DOMAIN k :
                             \/ k.id = id /\ f \in Supplied(body)
                             \/ k2[f] = k[f]
                 /\ \A k2 \in apiKeys' : \E k \in apiKeys : k.id = k2.id]_vars

\* an update supplying only a name was answered 200 from an instance that
\* still shows the key active, while the row, switched off by another
\* request since the findOne, has the new name and is still switched off;
\* the other user's key is as created
C11_Witness ==
    /\ out.op = "updateKey"
    /\ out.res.status = 200
    /\ Supplied(out.body) = {"name"}
    /\ out.res.body.data.isActive = TRUE
    /\ \E k \in apiKeys :
          /\ k.id = out.keyId
          /\ k.name = out.body.name
          /\ k.isActive = FALSE
          /\ k.key = OriginalToken(k.id)
    /\ \E k \in apiKeys : k.id # out.keyId /\ k.name = "ci" /\ k.isActive = TRUE

(***************************************************************************)
(* Claims about the quota over all key requests, checked under SpecQuota.  *)
(***************************************************************************)
\* C12, as stated: in every reachable state, after any sequence and any
\* interleaving of create, update (setting isActive back to true on a
\* switched-off key included) and revoke requests, no user owns more than
\* 10 keys whose active flag is true.
C12_AsStated ==
    \A u \in users : Cardinality(ActiveKeysOf(apiKeys, u.id)) <= MaxActiveKeys

(***************************************************************************)
(* Claims about connectDB, checked under SpecDB.                           *)
(***************************************************************************)
\* C13: connectDB never throws or rejects; a call that has ended returned
\* true exactly when getSequelize, authenticate and sync succeeded, in that
\* order, and false exactly when one of them failed; with DATABASE_URL
\* undefined or empty every call returns false; and sync is attempted only
\* straight after an authenticate that succeeded.
C13_ConnectDBTotal ==
    /\ \A i \in 1..Len(results) :
          results[i].outcome = "returned" /\ results[i].value \in BOOLEAN
    /\ connectPc = "idle" /\ results # <<>> =>
          /\ results[Len(results)].value = TRUE <=> trace = AllSucceeded
          /\ results[Len(results)].value = FALSE <=>
                \E i \in 1..Len(trace) : ~trace[i].ok
    /\ "DATABASE_URL" \notin DOMAIN env \/ Falsy(env.DATABASE_URL) =>
          /\ \A i \in 1..Len(results) : results[i].value = FALSE
          /\ connectPc = "idle"
          /\ trace \in {<<>>, <<Step("getSequelize", FALSE)>>}
    /\ \A i \in 1..Len(trace) :
          /\ trace[i].call = "sync" => i > 1 /\ trace[i - 1] = Step("authenticate", TRUE)
          /\ ~trace[i].ok => i = Len(trace)

\* a first call returned false after authenticate was rejected, without a
\* sync; a later call, on the same handle, returned true after all three
\* steps
C13_Witness ==
    /\ connectPc = "idle"
    /\ Len(results) >= 2
    /\ results[1] = Returned(FALSE)
    /\ results[Len(results)] = Returned(TRUE)
    /\ trace = AllSucceeded

====
